---- MODULE Spec2Model ----
(***************************************************************************)
(* Model of the listing pipeline: preprocessing.py (extract_number,        *)
(* safe_get_str, process_record, json_to_csv, __main__) and the load_data  *)
(* functions of the report scripts.                                        *)
(*                                                                         *)
(* Text is a sequence of one-character strings.  The schema columns carry  *)
(* the English names of the nine CSV columns, in fieldnames order:         *)
(*   name, type, district, street, location_detail, room_count, area,     *)
(*   total_price, unit_price.                                              *)
(* float() of a numeric token is its exact decimal value: every token of   *)
(* the model is short enough to be an exactly rounded finite double.       *)
(***************************************************************************)
EXTENDS Integers, Sequences, FiniteSets, TLC

VARIABLES
    record,     \* process_record: the raw record passed in
    processed,  \* process_record: the returned row (NoRow before the return)
    exc,        \* process_record: the exception that escaped ("none" if none)
    rpc,        \* process_record: "start" before the call, "done" after
    jsonFile,   \* preprocessing run: the source file (missing, malformed or a JSON value)
    jsonHandle, \* preprocessing run: the handle of the source, "open" or "closed"
    data,       \* json_to_csv: the value of json.load, then the list iterated
    idx,        \* json_to_csv: position of the loop in data (1-based)
    csvFile,    \* preprocessing run: the destination file
    csvHandle,  \* preprocessing run: the handle of the destination
    jout,       \* preprocessing run: the messages printed so far
    jexc,       \* preprocessing run: the exception that ended it ("none" if none)
    jpc,        \* preprocessing run: position in json_to_csv / __main__
    script,     \* report script: the script whose load_data runs
    loaded,     \* report script: what load_data returned
    lout,       \* report script: the messages printed so far
    lexc,       \* report script: the exception that escaped ("none" if none)
    lpc,        \* report script: "start" before load_data, "loaded" / "crashed" after
    xtext,      \* extract_number: the argument passed in
    tokens,     \* extract_number: the returned list (<<>> before the return)
    xexc,       \* extract_number: the exception that escaped ("none" if none)
    xpc,        \* extract_number: "start" before the call, "done" after
    mpc,        \* report script: position in main
    grouped,    \* report script: the grouped summary (or pivot tables) main holds
    normalized, \* radar_chart: what normalize_data returned
    widths,     \* average_price_per_district: the bar widths of the last chart
    mout,       \* report script: the messages main itself printed
    mexc,       \* report script: the exception that ended main ("none" if none)
    trace       \* report script: the steps main has taken, in order

recVars == <<record, processed, exc, rpc>>
jsonVars == <<jsonFile, jsonHandle, data, idx, csvFile, csvHandle, jout, jexc, jpc>>
loadVars == <<script, loaded, lout, lexc, lpc>>
extVars == <<xtext, tokens, xexc, xpc>>
mainVars == <<mpc, grouped, normalized, widths, mout, mexc, trace>>
vars == <<recVars, jsonVars, loadVars, extVars, mainVars>>

(***************************************************************************)
(* Bounds of the explored inputs.                                          *)
(***************************************************************************)
MaxLen == 4        \* longest text of a scalar field
MaxListText == 5   \* longest written form of a location / room list

(***************************************************************************)
(* Text.                                                                   *)
(***************************************************************************)
Digits == {"0", "1", "2", "3", "4", "5", "6", "7", "8", "9"}
Whitespace == {" "}

\* the characters the explored texts are made of
Alphabet == {"2", "5", ".", "-", " "}
ElemAlphabet == {"2", "3", " "}

RECURSIVE lstrip(_)
lstrip(s) ==
    IF Len(s) = 0 THEN <<>>
    ELSE IF s[1] \in Whitespace THEN lstrip(SubSeq(s, 2, Len(s))) ELSE s

RECURSIVE rstrip(_)
rstrip(s) ==
    IF Len(s) = 0 THEN <<>>
    ELSE IF s[Len(s)] \in Whitespace THEN rstrip(SubSeq(s, 1, Len(s) - 1)) ELSE s

\* str.strip()
strip(s) == rstrip(lstrip(s))

DigitVal(c) ==
    CASE c = "0" -> 0 [] c = "1" -> 1 [] c = "2" -> 2 [] c = "3" -> 3
      [] c = "4" -> 4 [] c = "5" -> 5 [] c = "6" -> 6 [] c = "7" -> 7
      [] c = "8" -> 8 [] c = "9" -> 9

DigitChar(d) ==
    CASE d = 0 -> "0" [] d = 1 -> "1" [] d = 2 -> "2" [] d = 3 -> "3"
      [] d = 4 -> "4" [] d = 5 -> "5" [] d = 6 -> "6" [] d = 7 -> "7"
      [] d = 8 -> "8" [] d = 9 -> "9"

(***************************************************************************)
(* The pattern \d+\.?\d* of extract_number.                                *)
(***************************************************************************)
\* first index >= i of s that holds no digit (Len(s) + 1 if there is none)
RECURSIVE DigitRunEnd(_, _)
DigitRunEnd(s, i) ==
    IF i > Len(s) THEN i
    ELSE IF s[i] \in Digits THEN DigitRunEnd(s, i + 1) ELSE i

\* s[i] is a digit: the index after the match of \d+\.?\d* that starts at i
MatchEnd(s, i) ==
    LET j == DigitRunEnd(s, i)
    IN  IF j <= Len(s) /\ s[j] = "." THEN DigitRunEnd(s, j + 1) ELSE j

\* re.findall scanning from index i: the non-overlapping matches, left to right
RECURSIVE FindAll(_, _)
FindAll(s, i) ==
    IF i > Len(s) THEN <<>>
    ELSE IF s[i] \in Digits
         THEN LET e == MatchEnd(s, i)
              IN  <<SubSeq(s, i, e - 1)>> \o FindAll(s, e)
         ELSE FindAll(s, i + 1)

(***************************************************************************)
(* Python values.  A raw JSON value is [k, s, l]: k its kind, s its text   *)
(* when it is a string, l its elements when it is a list.  An element of a *)
(* list is [k, s].  Kind "absent" stands for a key the record lacks.       *)
(***************************************************************************)
Absent == [k |-> "absent", s |-> <<>>, l |-> <<>>]
Null == [k |-> "null", s |-> <<>>, l |-> <<>>]
Str(s) == [k |-> "str", s |-> s, l |-> <<>>]
Num == [k |-> "num", s |-> <<>>, l |-> <<>>]
List(l) == [k |-> "list", s |-> <<>>, l |-> l]
Other == [k |-> "other", s |-> <<>>, l |-> <<>>]

ElemStr(s) == [k |-> "str", s |-> s]
ElemNum == [k |-> "num", s |-> <<>>]
ElemNull == [k |-> "null", s |-> <<>>]

\* the outcome of a call: a value, or the exception that escaped it
Ok(v) == [exc |-> "none", val |-> v]
Raise(e, dflt) == [exc |-> e, val |-> dflt]

\* a cell of the returned row: a str or an int
StrV(s) == [t |-> "str", s |-> s, n |-> 0]
IntV(n) == [t |-> "int", s |-> <<>>, n |-> n]
Missing == StrV(<<>>)

\* extract_number(text): re.findall raises TypeError unless text is a str
extract_number(text) ==
    IF text.k = "str" THEN Ok(FindAll(text.s, 1)) ELSE Raise("TypeError", <<>>)

(***************************************************************************)
(* Numbers.  float(token) is the pair <<n, d>> standing for n / d, with d  *)
(* a power of ten.                                                         *)
(***************************************************************************)
RECURSIVE Pow10(_)
Pow10(k) == IF k = 0 THEN 1 ELSE 10 * Pow10(k - 1)

RECURSIVE DigitsValue(_)
DigitsValue(ds) ==
    IF Len(ds) = 0 THEN 0
    ELSE 10 * DigitsValue(SubSeq(ds, 1, Len(ds) - 1)) + DigitVal(ds[Len(ds)])

\* float(num) for a token of extract_number
float(tok) ==
    LET j == DigitRunEnd(tok, 1)                 \* index of "." or Len + 1
        ip == SubSeq(tok, 1, j - 1)
        fp == SubSeq(tok, j + 1, Len(tok))
    IN  <<DigitsValue(ip \o fp), Pow10(Len(fp))>>

\* x + y and x / k on such pairs
FAdd(x, y) == <<x[1] * y[2] + y[1] * x[2], x[2] * y[2]>>
FDiv(x, k) == <<x[1], x[2] * k>>

\* round(x): to the nearest integer, a tie going to the even one
round(x) ==
    LET q == x[1] \div x[2]
        r == x[1] % x[2]
    IN  IF 2 * r < x[2] THEN q
        ELSE IF 2 * r > x[2] THEN q + 1
        ELSE IF q % 2 = 0 THEN q ELSE q + 1

\* int(x): truncation toward zero
int(x) == x[1] \div x[2]

RECURSIVE FSum(_)
FSum(xs) == IF Len(xs) = 0 THEN <<0, 1>> ELSE FAdd(xs[1], FSum(Tail(xs)))

(***************************************************************************)
(* process_record.                                                         *)
(***************************************************************************)
RawKeys == {"name", "type", "location", "room", "area", "total_price", "unit_price"}
ListKeys == {"location", "room"}
fieldnames ==
    <<"name", "type", "district", "street", "location_detail",
      "room_count", "area", "total_price", "unit_price">>
SchemaKeys == {fieldnames[i] : i \in DOMAIN fieldnames}
TextKeys == {"name", "type", "district", "street", "location_detail"}
NumericKeys == {"room_count", "area", "total_price", "unit_price"}
location_fields == <<"district", "street", "location_detail">>

NoRow == [c \in {} |-> Missing]

\* record.get(key, default)
Get(rec, key, default) == IF rec[key].k = "absent" THEN default ELSE rec[key]

\* the same without the isinstance test: value.strip() on whatever is there
safe_get_str_unchecked(rec, key) ==
    LET value == Get(rec, key, Str(<<>>))
    IN  IF value.k = "str" THEN Ok(strip(value.s)) ELSE Raise("AttributeError", <<>>)

safe_get_str(rec, key) ==
    LET value == Get(rec, key, Str(<<>>))
    IN  IF value.k = "str" THEN Ok(strip(value.s)) ELSE Ok(<<>>)

\* lines 34-42: the three location sub-fields
location_cells(rec) ==
    LET got == Get(rec, "location", List(<<>>))
        locations == IF got.k = "list" THEN got.l ELSE <<>>
    IN  Ok([f \in {location_fields[i] : i \in 1..3} |->
              LET i == CHOOSE j \in 1..3 : location_fields[j] = f
              IN  IF i <= Len(locations) /\ locations[i].k = "str"
                  THEN StrV(strip(locations[i].s))
                  ELSE Missing])

\* lines 48-53, taking only the first number of each element
RECURSIVE room_numbers_first_only(_, _)
room_numbers_first_only(rooms, i) ==
    IF i > Len(rooms) THEN Ok(<<>>)
    ELSE IF rooms[i].k = "str"
         THEN LET nums == extract_number(rooms[i])
                  rest == room_numbers_first_only(rooms, i + 1)
              IN  IF nums.exc # "none" THEN Raise(nums.exc, <<>>)
                  ELSE IF rest.exc # "none" THEN rest
                  ELSE Ok((IF Len(nums.val) = 0 THEN <<>> ELSE <<float(nums.val[1])>>)
                          \o rest.val)
         ELSE room_numbers_first_only(rooms, i + 1)

\* lines 48-53: the pool of the numbers of the string elements of rooms
RECURSIVE room_numbers(_, _)
room_numbers(rooms, i) ==
    IF i > Len(rooms) THEN Ok(<<>>)
    ELSE IF rooms[i].k = "str"
         THEN LET nums == extract_number(rooms[i])
                  rest == room_numbers(rooms, i + 1)
              IN  IF nums.exc # "none" THEN Raise(nums.exc, <<>>)
                  ELSE IF rest.exc # "none" THEN rest
                  ELSE Ok([j \in 1..Len(nums.val) |-> float(nums.val[j])] \o rest.val)
         ELSE room_numbers(rooms, i + 1)

\* lines 45-58
room_cell(rec) ==
    LET got == Get(rec, "room", List(<<>>))
        rooms == IF got.k = "list" THEN got.l ELSE <<>>
        pool == room_numbers(rooms, 1)
    IN  IF pool.exc # "none" THEN Raise(pool.exc, Missing)
        ELSE IF Len(pool.val) > 0
             THEN Ok(IntV(round(FDiv(FSum(pool.val), Len(pool.val)))))
             ELSE Ok(Missing)

\* lines 61-71, with the mean of all the tokens in place of the first two
area_cell_all_tokens(rec) ==
    LET area_text == safe_get_str(rec, "area")
        area_numbers == extract_number(Str(area_text.val))
    IN  IF area_text.exc # "none" THEN Raise(area_text.exc, Missing)
        ELSE IF area_numbers.exc # "none" THEN Raise(area_numbers.exc, Missing)
        ELSE IF Len(area_numbers.val) >= 1
             THEN Ok(IntV(round(FDiv(
                      FSum([j \in 1..Len(area_numbers.val) |-> float(area_numbers.val[j])]),
                      Len(area_numbers.val)))))
             ELSE Ok(Missing)

\* lines 61-71
area_cell(rec) ==
    LET area_text == safe_get_str(rec, "area")
        area_numbers == extract_number(Str(area_text.val))
    IN  IF area_text.exc # "none" THEN Raise(area_text.exc, Missing)
        ELSE IF area_numbers.exc # "none" THEN Raise(area_numbers.exc, Missing)
        ELSE IF Len(area_numbers.val) >= 2
             THEN LET lower == float(area_numbers.val[1])
                      upper == float(area_numbers.val[2])
                      avg_area == FDiv(FAdd(lower, upper), 2)
                  IN  Ok(IntV(round(avg_area)))
        ELSE IF Len(area_numbers.val) = 1
             THEN Ok(IntV(round(float(area_numbers.val[1]))))
             ELSE Ok(Missing)

\* lines 74-79 and 82-87, rounding in place of truncating
price_cell_rounded(rec, key) ==
    LET text == safe_get_str(rec, key)
        nums == extract_number(Str(text.val))
    IN  IF text.exc # "none" THEN Raise(text.exc, Missing)
        ELSE IF nums.exc # "none" THEN Raise(nums.exc, Missing)
        ELSE IF Len(nums.val) > 0
             THEN Ok(IntV(round(float(nums.val[1]))))
             ELSE Ok(Missing)

\* lines 74-79 (key = total_price) and 82-87 (key = unit_price)
price_cell(rec, key) ==
    LET text == safe_get_str(rec, key)
        nums == extract_number(Str(text.val))
    IN  IF text.exc # "none" THEN Raise(text.exc, Missing)
        ELSE IF nums.exc # "none" THEN Raise(nums.exc, Missing)
        ELSE IF Len(nums.val) > 0
             THEN Ok(IntV(int(float(nums.val[1]))))
             ELSE Ok(Missing)

\* a text cell of the row from a safe_get_str outcome
TextCell(r) == IF r.exc = "none" THEN Ok(StrV(r.val)) ELSE Raise(r.exc, Missing)

process_record(rec) ==
    LET name == TextCell(safe_get_str(rec, "name"))
        type == TextCell(safe_get_str(rec, "type"))
        locs == location_cells(rec)
        room == room_cell(rec)
        area == area_cell(rec)
        total == price_cell(rec, "total_price")
        unit == price_cell(rec, "unit_price")
        steps == <<name.exc, type.exc, locs.exc, room.exc, area.exc, total.exc, unit.exc>>
        failed == {i \in 1..7 : steps[i] # "none"}
    IN  IF failed # {}
        THEN Raise(steps[CHOOSE i \in failed : \A j \in failed : i <= j], NoRow)
        ELSE Ok(("name" :> name.val) @@ ("type" :> type.val) @@ locs.val
                @@ ("room_count" :> room.val) @@ ("area" :> area.val)
                @@ ("total_price" :> total.val) @@ ("unit_price" :> unit.val))

(***************************************************************************)
(* The raw records explored: one field ranges over every value of the      *)
(* bounds, the six others follow one of four backgrounds.                  *)
(***************************************************************************)
\* The lists explored are written as text: each element ends at a ",", a last
\* element may lack it, and an element holding "#" is not a string (a number
\* when it is "#" alone, null otherwise).
ListAlphabet == ElemAlphabet \cup {",", "#"}

ElemOf(cur) ==
    IF \E i \in 1..Len(cur) : cur[i] = "#"
    THEN IF Len(cur) = 1 THEN ElemNum ELSE ElemNull
    ELSE ElemStr(cur)

RECURSIVE ListOf(_, _, _)
ListOf(s, i, cur) ==
    IF i > Len(s) THEN IF Len(cur) = 0 THEN <<>> ELSE <<ElemOf(cur)>>
    ELSE IF s[i] = "," THEN <<ElemOf(cur)>> \o ListOf(s, i + 1, <<>>)
    ELSE ListOf(s, i + 1, Append(cur, s[i]))

ExampleTexts ==
    {<<"8", "0", "-", "1", "0", "0", "m">>, <<"7", "5", "m">>,
     <<"3", "9", "9", ".", "9">>, <<"8", "0", "-", "1", "0", "0", "-", "9">>}
ExampleLists ==
    {<<ElemStr(<<"3">>), ElemStr(<<"4">>)>>, <<ElemStr(<<"3", "r", "2", "h">>)>>}

Backgrounds ==
    {[f \in RawKeys |-> Absent],
     [f \in RawKeys |-> Null],
     [f \in RawKeys |-> IF f \in ListKeys THEN List(<<ElemStr(<<"2">>)>>) ELSE Str(<<"5">>)],
     [f \in RawKeys |-> IF f \in ListKeys THEN Str(<<"2">>) ELSE List(<<>>)]}

\* the preprocessing run is not part of the behaviour
NoFile == [exists |-> FALSE, bad |-> FALSE, header |-> <<>>, rows |-> <<>>]
JsonIdle ==
    /\ jsonFile = [k |-> "missing"]
    /\ jsonHandle = "closed"
    /\ data = <<>>
    /\ idx = 0
    /\ csvFile = NoFile
    /\ csvHandle = "closed"
    /\ jout = <<>>
    /\ jexc = "none"
    /\ jpc = "idle"

\* no report script is part of the behaviour
LoadIdle ==
    /\ script = "none"
    /\ loaded = <<>>
    /\ lout = <<>>
    /\ lexc = "none"
    /\ lpc = "idle"

\* no direct call of extract_number is part of the behaviour
ExtIdle ==
    /\ xtext = Absent
    /\ tokens = <<>>
    /\ xexc = "none"
    /\ xpc = "idle"

\* no main of a report script is part of the behaviour
MainIdle ==
    /\ mpc = "idle"
    /\ grouped = <<>>
    /\ normalized = <<>>
    /\ widths = <<>>
    /\ mout = <<>>
    /\ mexc = "none"
    /\ trace = <<>>

\* record = bg with field f set to v
Explore(bg, f, v) == record = [bg EXCEPT ![f] = v]

InitRecord ==
    /\ \E f \in RawKeys, bg \in Backgrounds :
         \/ \E v \in {Absent, Null, Num, Other} : Explore(bg, f, v)
         \/ f \in ListKeys /\ Explore(bg, f, Str(<<"2">>))
         \/ f \in ListKeys /\ \E k \in 0..MaxListText :
               \E s \in [1..k -> ListAlphabet] : Explore(bg, f, List(ListOf(s, 1, <<>>)))
         \/ f \in ListKeys /\ \E l \in ExampleLists : Explore(bg, f, List(l))
         \/ f \notin ListKeys /\ Explore(bg, f, List(<<>>))
         \/ f \notin ListKeys /\ \E k \in 0..MaxLen :
               \E s \in [1..k -> Alphabet] : Explore(bg, f, Str(s))
         \/ f \notin ListKeys /\ \E s \in ExampleTexts : Explore(bg, f, Str(s))
    /\ processed = NoRow
    /\ exc = "none"
    /\ rpc = "start"
    /\ JsonIdle
    /\ LoadIdle
    /\ ExtIdle
    /\ MainIdle

\* the call process_record(record)
ProcessRecord ==
    /\ rpc = "start"
    /\ LET r == process_record(record)
       IN  /\ processed' = r.val
           /\ exc' = r.exc
    /\ rpc' = "done"
    /\ UNCHANGED <<record, jsonVars, loadVars, extVars, mainVars>>

NextRecord == ProcessRecord

SpecRecord == InitRecord /\ [][NextRecord]_vars

(***************************************************************************)
(* The rules of the specification, stated on the raw record.               *)
(***************************************************************************)
\* the numeric tokens of a scalar field: none unless the field holds a string
TokensOf(v) == IF v.k = "str" THEN FindAll(v.s, 1) ELSE <<>>

\* v is the integer nearest to n / d, the even one of the two when n / d is
\* halfway between them
NearestEven(v, n, d) ==
    LET twice == IF 2 * (v * d - n) >= 0 THEN 2 * (v * d - n) ELSE 2 * (n - v * d)
    IN  /\ twice <= d
        /\ twice = d => v % 2 = 0

\* v is n / d with its fractional part cut off
Truncated(v, n, d) == v * d <= n /\ n < (v + 1) * d

\* the pool of the room rule: every token of every string element, in order
RECURSIVE PoolOf(_)
PoolOf(l) ==
    IF Len(l) = 0 THEN <<>>
    ELSE (IF l[1].k = "str" THEN FindAll(l[1].s, 1) ELSE <<>>) \o PoolOf(Tail(l))

RECURSIVE SumOfTokens(_)
SumOfTokens(toks) ==
    IF Len(toks) = 0 THEN <<0, 1>> ELSE FAdd(float(toks[1]), SumOfTokens(Tail(toks)))

MaxEntries == 3    \* most entries of the top-level list

EmptyDict == [f \in RawKeys |-> Absent]

Dict(rec) == [k |-> "dict", rec |-> rec, items |-> <<>>]
Scalar(kind) == [k |-> kind, rec |-> EmptyDict, items |-> <<>>]
Array(items) == [k |-> "list", rec |-> EmptyDict, items |-> items]

\* str(n) of an int n >= 0
RECURSIVE IntStr(_)
IntStr(n) == IF n < 10 THEN <<DigitChar(n)>> ELSE IntStr(n \div 10) \o <<DigitChar(n % 10)>>

\* the text csv writes for a cell
CellText(c) == IF c.t = "int" THEN IntStr(c.n) ELSE c.s

\* csv.DictWriter.writerow(rowdict): the cells in fieldnames order, "" for a
\* key the dict lacks, ValueError for a key that is no fieldname
writerow(rowdict) ==
    IF DOMAIN rowdict \subseteq SchemaKeys
    THEN Ok([i \in 1..Len(fieldnames) |->
               IF fieldnames[i] \in DOMAIN rowdict
               THEN CellText(rowdict[fieldnames[i]])
               ELSE <<>>])
    ELSE Raise("ValueError", <<>>)

Printed(msg, at) == [msg |-> msg, at |-> at]

\* line 96: open(json_file, "r")
JsonOpen ==
    /\ jpc = "start"
    /\ IF jsonFile.k = "missing"
       THEN /\ jexc' = "FileNotFoundError"
            /\ jpc' = "crashed"
            /\ UNCHANGED jsonHandle
       ELSE /\ jsonHandle' = "open"
            /\ jpc' = "opened"
            /\ UNCHANGED jexc
    /\ UNCHANGED <<jsonFile, data, idx, csvFile, csvHandle, jout, recVars, loadVars, extVars, mainVars>>

\* lines 97-101: json.load(f); the with block releases f on both ways out
JsonLoad ==
    /\ jpc = "opened"
    /\ jsonHandle' = "closed"
    /\ IF jsonFile.k = "malformed"
       THEN /\ jout' = Append(jout, Printed("json_decode_error", 0))
            /\ jpc' = "returned"
            /\ UNCHANGED data
       ELSE /\ data' = jsonFile.v
            /\ jpc' = "loaded"
            /\ UNCHANGED jout
    /\ UNCHANGED <<jsonFile, idx, csvFile, csvHandle, jexc, recVars, loadVars, extVars, mainVars>>

\* lines 104-105
EnsureList ==
    /\ jpc = "loaded"
    /\ data' = IF data.k # "list" THEN Array(<<data>>) ELSE data
    /\ jpc' = "listed"
    /\ UNCHANGED <<jsonFile, jsonHandle, idx, csvFile, csvHandle, jout, jexc, recVars, loadVars, extVars, mainVars>>

\* lines 110-112: open(csv_file, "w") creates or truncates; writeheader()
OpenCsv ==
    /\ jpc = "listed"
    /\ csvFile' = [exists |-> TRUE, bad |-> FALSE, header |-> fieldnames, rows |-> <<>>]
    /\ csvHandle' = "open"
    /\ idx' = 1
    /\ jpc' = "writing"
    /\ UNCHANGED <<jsonFile, jsonHandle, data, jout, jexc, recVars, loadVars, extVars, mainVars>>

\* lines 115-117 with break in place of continue
SkipEntryAndStop ==
    /\ jpc = "writing"
    /\ idx <= Len(data.items)
    /\ data.items[idx].k # "dict"
    /\ jout' = Append(jout, Printed("skip", idx))
    /\ idx' = Len(data.items) + 1
    /\ UNCHANGED <<jsonFile, jsonHandle, data, csvFile, csvHandle, jexc, jpc, recVars, loadVars, extVars, mainVars>>

\* lines 114-117: an entry that is no dict
SkipEntry ==
    /\ jpc = "writing"
    /\ idx <= Len(data.items)
    /\ data.items[idx].k # "dict"
    /\ jout' = Append(jout, Printed("skip", idx))
    /\ idx' = idx + 1
    /\ UNCHANGED <<jsonFile, jsonHandle, data, csvFile, csvHandle, jexc, jpc, recVars, loadVars, extVars, mainVars>>

\* lines 114, 118-119: an entry that is a dict
WriteEntry ==
    /\ jpc = "writing"
    /\ idx <= Len(data.items)
    /\ data.items[idx].k = "dict"
    /\ LET r == process_record(data.items[idx].rec)
           w == writerow(r.val)
       IN  IF r.exc # "none" \/ w.exc # "none"
           THEN /\ jexc' = IF r.exc # "none" THEN r.exc ELSE w.exc
                /\ csvHandle' = "closed"
                /\ jpc' = "crashed"
                /\ UNCHANGED <<csvFile, idx>>
           ELSE /\ csvFile' = [csvFile EXCEPT !.rows = Append(@, w.val)]
                /\ idx' = idx + 1
                /\ UNCHANGED <<csvHandle, jexc, jpc>>
    /\ UNCHANGED <<jsonFile, jsonHandle, data, jout, recVars, loadVars, extVars, mainVars>>

\* the loop is over: the with block closes the destination, json_to_csv returns
CloseCsv ==
    /\ jpc = "writing"
    /\ idx > Len(data.items)
    /\ csvHandle' = "closed"
    /\ jpc' = "returned"
    /\ UNCHANGED <<jsonFile, jsonHandle, data, idx, csvFile, jout, jexc, recVars, loadVars, extVars, mainVars>>

\* line 126: the print after json_to_csv has returned
MainPrint ==
    /\ jpc = "returned"
    /\ jout' = Append(jout, Printed("success", 0))
    /\ jpc' = "finished"
    /\ UNCHANGED <<jsonFile, jsonHandle, data, idx, csvFile, csvHandle, jexc, recVars, loadVars, extVars, mainVars>>

(***************************************************************************)
(* The sources explored.                                                   *)
(***************************************************************************)
RecordA ==
    [f \in RawKeys |->
       CASE f = "name" -> Str(<<"A">>)
         [] f = "type" -> Str(<<"T">>)
         [] f = "location" -> List(<<ElemStr(<<"D">>), ElemStr(<<"S">>), ElemStr(<<"L">>)>>)
         [] f = "room" -> List(<<ElemStr(<<"3", "r">>)>>)
         [] f = "area" -> Str(<<"8", "0", "-", "1", "0", "0", "m">>)
         [] f = "total_price" -> Str(<<"3", "9", "9", ".", "9", "w">>)
         [] f = "unit_price" -> Str(<<"5", "2", "0", "0", "0">>)]
RecordB ==
    [f \in RawKeys |->
       CASE f = "name" -> Str(<<" ", "B", " ">>)
         [] f = "type" -> Null
         [] f = "location" -> List(<<ElemStr(<<"E">>), ElemNum>>)
         [] f = "room" -> Str(<<"2">>)
         [] f = "area" -> Str(<<"7", "5", "m">>)
         [] f = "total_price" -> Num
         [] f = "unit_price" -> Str(<<"7">>)]
SampleRecords == {EmptyDict, RecordA, RecordB}

Entries ==
    {Dict(rec) : rec \in SampleRecords}
    \cup {Scalar("num"), Scalar("str"), Scalar("null"), Array(<<>>)}

\* a destination left by an earlier run
OldFile ==
    [exists |-> TRUE, bad |-> FALSE, header |-> fieldnames,
     rows |-> <<[i \in 1..Len(fieldnames) |-> <<"o">>]>>]

InitBatch ==
    /\ \/ jsonFile \in {[k |-> "missing", v |-> Scalar("null")],
                        [k |-> "malformed", v |-> Scalar("null")]}
       \/ \E e \in Entries : jsonFile = [k |-> "value", v |-> e]
       \/ \E n \in 1..MaxEntries : \E items \in [1..n -> Entries] :
            jsonFile = [k |-> "value", v |-> Array(items)]
    /\ jsonHandle = "closed"
    /\ data = Scalar("null")
    /\ idx = 0
    /\ csvFile \in {NoFile, OldFile}
    /\ csvHandle = "closed"
    /\ jout = <<>>
    /\ jexc = "none"
    /\ jpc = "start"
    /\ record = EmptyDict
    /\ processed = NoRow
    /\ exc = "none"
    /\ rpc = "idle"
    /\ LoadIdle
    /\ ExtIdle
    /\ MainIdle

NextBatch ==
    \/ JsonOpen
    \/ JsonLoad
    \/ EnsureList
    \/ OpenCsv
    \/ SkipEntry
    \/ WriteEntry
    \/ CloseCsv
    \/ MainPrint

SpecBatch == InitBatch /\ [][NextBatch]_vars

\* the rows of the dict entries of items, in order
RECURSIVE RowsOf(_)
RowsOf(items) ==
    IF Len(items) = 0 THEN <<>>
    ELSE (IF items[1].k = "dict"
          THEN <<writerow(process_record(items[1].rec).val).val>>
          ELSE <<>>) \o RowsOf(Tail(items))

\* one diagnostic for each entry of items[from..to] that is no dict, in order
RECURSIVE SkipsOf(_, _, _)
SkipsOf(items, from, to) ==
    IF from > to THEN <<>>
    ELSE (IF items[from].k # "dict" THEN <<Printed("skip", from)>> ELSE <<>>)
         \o SkipsOf(items, from + 1, to)

IsPrefix(p, q) == Len(p) <= Len(q) /\ SubSeq(q, 1, Len(p)) = p

\* C5: for a top-level list the table starts with the nine-column header and
\* holds exactly one row for each entry that is a dict, in input order; an
\* entry that is no dict is skipped with one diagnostic, never ends the run or
\* the loop, and changes no row of the entries around it.
C5_BatchRows ==
    (jsonFile.k = "value" /\ jsonFile.v.k = "list") =>
        LET items == jsonFile.v.items
        IN  /\ jpc # "crashed"
            /\ jpc = "writing" =>
                 /\ csvFile.header = fieldnames
                 /\ csvFile.rows = RowsOf(SubSeq(items, 1, idx - 1))
                 /\ jout = SkipsOf(items, 1, idx - 1)
            /\ jpc \in {"returned", "finished"} =>
                 /\ csvFile.header = fieldnames
                 /\ csvFile.rows = RowsOf(items)
                 /\ IsPrefix(SkipsOf(items, 1, Len(items)), jout)
                 /\ Len(jout) <= Len(SkipsOf(items, 1, Len(items))) + 1

\* C5 witness: the list (record A, a number, record B) has been written as the
\* two rows of A and B.
C5_Witness ==
    /\ jpc = "finished"
    /\ jsonFile.v = Array(<<Dict(RecordA), Scalar("num"), Dict(RecordB)>>)
    /\ csvFile.rows =
         << <<<<"A">>, <<"T">>, <<"D">>, <<"S">>, <<"L">>, <<"3">>, <<"9", "0">>,
              <<"3", "9", "9">>, <<"5", "2", "0", "0", "0">>>>,
            <<<<"B">>, <<>>, <<"E">>, <<>>, <<>>, <<>>, <<"7", "5">>, <<>>, <<"7">>>> >>
    /\ jout = <<Printed("skip", 2), Printed("success", 0)>>

\* C6: a top-level value that is neither a list nor a dict ends the run with a
\* fatal ingestion error: the destination never becomes a header-only table
\* and the success message is never printed.
C6_ScalarTopLevelIsFatal ==
    (jsonFile.k = "value" /\ jsonFile.v.k \notin {"list", "dict"}) =>
        /\ ~(csvFile.exists /\ csvFile.rows = <<>>)
        /\ \A i \in 1..Len(jout) : jout[i].msg # "success"

(***************************************************************************)
(* load_data of the nine report scripts.                                   *)
(*                                                                         *)
(* A DataFrame is its columns (names, in file order) and its rows, a row   *)
(* being its index label and its cells by column.  A cell is NaN, an int,  *)
(* a float n / d or a str.                                                 *)
(***************************************************************************)
MaxRows == 2       \* most rows of a source table
MaxMissing == 2    \* most schema columns a source table lacks

NaN == [t |-> "nan", n |-> 0, d |-> 1, s |-> <<>>]
DfInt(n) == [t |-> "int", n |-> n, d |-> 1, s |-> <<>>]
DfFloat(n, d) == [t |-> "float", n |-> n, d |-> d, s |-> <<>>]
DfStr(s) == [t |-> "str", n |-> 0, d |-> 1, s |-> s]

None == [k |-> "None", columns |-> <<>>, rows |-> <<>>]
DataFrame(columns, rows) == [k |-> "DataFrame", columns |-> columns, rows |-> rows]

\* what each load_data requires, converts (in statement order) and passes to
\* dropna
cfg_average_price_per_district ==
    [required |-> <<"unit_price", "total_price", "district">>,
     convert |-> <<<<"to_numeric", "unit_price">>, <<"to_numeric", "total_price">>,
                   <<"astype_str", "district">>>>,
     subset |-> <<"unit_price", "total_price", "district">>]

cfg_boxplot_price_by_type ==
    [required |-> <<"unit_price", "total_price", "type">>,
     convert |-> <<<<"to_numeric", "unit_price">>, <<"to_numeric", "total_price">>,
                   <<"astype_str", "type">>>>,
     subset |-> <<"unit_price", "total_price", "type">>]

cfg_bubble_scatter ==
    [required |-> <<"area", "room_count", "unit_price", "total_price", "type", "district">>,
     convert |-> <<<<"to_numeric", "area">>, <<"to_numeric", "room_count">>,
                   <<"to_numeric", "unit_price">>, <<"to_numeric", "total_price">>,
                   <<"astype_str", "type">>, <<"astype_str", "district">>>>,
     subset |-> <<"area", "room_count", "unit_price", "total_price", "type", "district">>]

cfg_grouped_bar_average_price ==
    [required |-> <<"name", "type", "district", "room_count", "area", "unit_price",
                    "total_price">>,
     convert |-> <<<<"to_numeric", "room_count">>, <<"to_numeric", "unit_price">>,
                   <<"to_numeric", "total_price">>, <<"astype_str", "type">>,
                   <<"astype_str", "district">>>>,
     subset |-> <<"name", "type", "district", "room_count", "area", "unit_price",
                  "total_price">>]

cfg_heatmap_average_price_per_district_type ==
    [required |-> <<"unit_price", "total_price", "district", "type">>,
     convert |-> <<<<"to_numeric", "unit_price">>, <<"to_numeric", "total_price">>,
                   <<"astype_str", "district">>, <<"astype_str", "type">>>>,
     subset |-> <<"unit_price", "total_price", "district", "type">>]

cfg_price_distribution ==
    [required |-> <<"unit_price", "total_price", "type">>,
     convert |-> <<<<"to_numeric", "unit_price">>, <<"to_numeric", "total_price">>,
                   <<"astype_str", "type">>>>,
     subset |-> <<"unit_price", "total_price", "type">>]

cfg_price_distribution_type ==
    [required |-> <<"name", "type", "district", "room_count", "area", "unit_price",
                    "total_price">>,
     convert |-> <<<<"to_numeric", "room_count">>, <<"to_numeric", "unit_price">>,
                   <<"to_numeric", "total_price">>, <<"astype_str", "type">>,
                   <<"astype_str", "district">>>>,
     subset |-> <<"name", "type", "district", "room_count", "area", "unit_price",
                  "total_price">>]

cfg_radar_chart ==
    [required |-> <<"name", "type", "district", "room_count", "area", "unit_price",
                    "total_price">>,
     convert |-> <<<<"to_numeric", "room_count">>, <<"to_numeric", "unit_price">>,
                   <<"to_numeric", "total_price">>, <<"astype_str", "type">>,
                   <<"astype_str", "district">>>>,
     subset |-> <<"name", "type", "district", "room_count", "area", "unit_price",
                  "total_price">>]

cfg_treemap_average_price ==
    [required |-> <<"name", "type", "district", "area", "unit_price", "total_price">>,
     convert |-> <<<<"to_numeric", "area">>, <<"to_numeric", "room_count">>,
                   <<"to_numeric", "unit_price">>, <<"to_numeric", "total_price">>,
                   <<"astype_str", "type">>, <<"astype_str", "district">>>>,
     subset |-> <<"name", "type", "district", "area", "unit_price", "total_price">>]

Scripts ==
    {"average_price_per_district", "boxplot_price_by_type", "bubble_scatter",
     "grouped_bar_average_price", "heatmap_average_price_per_district_type",
     "price_distribution", "price_distribution_type", "radar_chart",
     "treemap_average_price"}

Config(sc) ==
    CASE sc = "average_price_per_district" -> cfg_average_price_per_district
      [] sc = "boxplot_price_by_type" -> cfg_boxplot_price_by_type
      [] sc = "bubble_scatter" -> cfg_bubble_scatter
      [] sc = "grouped_bar_average_price" -> cfg_grouped_bar_average_price
      [] sc = "heatmap_average_price_per_district_type" ->
           cfg_heatmap_average_price_per_district_type
      [] sc = "price_distribution" -> cfg_price_distribution
      [] sc = "price_distribution_type" -> cfg_price_distribution_type
      [] sc = "radar_chart" -> cfg_radar_chart
      [] sc = "treemap_average_price" -> cfg_treemap_average_price

Range(seq) == {seq[i] : i \in 1..Len(seq)}

(***************************************************************************)
(* pandas.                                                                 *)
(***************************************************************************)
\* cell texts read_csv takes for a missing value (its default na_values)
NaTexts ==
    {<<>>, <<"N", "A">>, <<"N", "a", "N">>, <<"n", "a", "n">>, <<"n", "u", "l", "l">>,
     <<"N", "U", "L", "L">>, <<"N", "o", "n", "e">>, <<"N", "/", "A">>, <<"n", "/", "a">>}

\* the text is one unsigned decimal numeral
IsNumeral(text) == Len(text) > 0 /\ FindAll(text, 1) = <<text>>
IsIntNumeral(text) == IsNumeral(text) /\ \A i \in 1..Len(text) : text[i] # "."

\* the number a numeral parses to, as the dtype of its column has it
NumCell(text, asInt) ==
    IF asInt THEN DfInt(float(text)[1]) ELSE DfFloat(float(text)[1], float(text)[2])

\* read_csv's type inference for one column, given the texts of its cells
ParseColumn(texts) ==
    LET allInt == \A i \in 1..Len(texts) : IsIntNumeral(texts[i])
        allNum == \A i \in 1..Len(texts) : texts[i] \in NaTexts \/ IsNumeral(texts[i])
    IN  [i \in 1..Len(texts) |->
           IF texts[i] \in NaTexts THEN NaN
           ELSE IF Len(texts) > 0 /\ allNum THEN NumCell(texts[i], allInt)
           ELSE DfStr(texts[i])]

\* pd.read_csv of a parseable file
read_csv(file) ==
    LET col(j) == ParseColumn([i \in 1..Len(file.rows) |-> file.rows[i][j]])
    IN  DataFrame(file.header,
                  [i \in 1..Len(file.rows) |->
                     [idx |-> i,
                      cells |-> [c \in Range(file.header) |->
                                   col(CHOOSE j \in 1..Len(file.header) : file.header[j] = c)[i]]]])

\* the column col of df, top to bottom
Column(df, col) == [i \in 1..Len(df.rows) |-> df.rows[i].cells[col]]

SetColumn(df, col, cells) ==
    [df EXCEPT !.rows = [i \in 1..Len(df.rows) |->
                           [df.rows[i] EXCEPT !.cells[col] = cells[i]]]]

\* pd.to_numeric(series, errors="coerce")
to_numeric(series) ==
    LET one(c) == IF c.t = "str"
                  THEN IF IsNumeral(c.s) THEN NumCell(c.s, IsIntNumeral(c.s)) ELSE NaN
                  ELSE c
        parsed == [i \in 1..Len(series) |-> one(series[i])]
        allInt == \A i \in 1..Len(parsed) : parsed[i].t = "int"
    IN  [i \in 1..Len(parsed) |->
           IF parsed[i].t = "int" /\ ~allInt THEN DfFloat(parsed[i].n, 1) ELSE parsed[i]]

\* str(x) of a float x = n / d, d a power of ten: at least one fractional digit,
\* no trailing zero beyond it
RECURSIVE FracDigits(_, _)
FracDigits(n, d) ==
    IF d = 1 THEN <<>>
    ELSE <<DigitChar(((n * 10) \div d) % 10)>> \o FracDigits(n % (d \div 10), d \div 10)

RECURSIVE DropZeros(_)
DropZeros(ds) ==
    IF Len(ds) > 1 /\ ds[Len(ds)] = "0" THEN DropZeros(SubSeq(ds, 1, Len(ds) - 1)) ELSE ds

FloatStr(n, d) ==
    IntStr(n \div d) \o <<".">> \o DropZeros(IF d = 1 THEN <<"0">> ELSE FracDigits(n % d, d))

\* series.astype(str): str() of every cell.  What a missing cell becomes is
\* the installed pandas' choice, which the repository does not pin: the string
\* "nan" before pandas 3, a missing value still from pandas 3 on (na_kept)
astype_str(series, na_kept) ==
    [i \in 1..Len(series) |->
       LET c == series[i]
       IN  CASE c.t = "nan" -> IF na_kept THEN NaN ELSE DfStr(<<"n", "a", "n">>)
             [] c.t = "int" -> DfStr(IntStr(c.n))
             [] c.t = "float" -> DfStr(FloatStr(c.n, c.d))
             [] c.t = "str" -> c]

\* data.dropna(subset=...): the rows with no missing cell in the subset columns
dropna(df, subset) ==
    [df EXCEPT !.rows = SelectSeq(df.rows,
                                  LAMBDA r : \A c \in Range(subset) : r.cells[c].t # "nan")]

\* the for loop over required_columns, walking the table's columns instead
first_missing_in_table_order(required, columns) ==
    LET absent == {c \in Range(required) : c \notin Range(columns)}
        pos(c) == CHOOSE i \in 1..Len(fieldnames) : fieldnames[i] = c
    IN  IF absent = {} THEN "" ELSE CHOOSE c \in absent : \A o \in absent : pos(c) <= pos(o)

\* the for loop over required_columns: the first one the table lacks, "" if none
first_missing(required, columns) ==
    LET absent == {i \in 1..Len(required) : required[i] \notin Range(columns)}
    IN  IF absent = {} THEN "" ELSE required[CHOOSE i \in absent : \A j \in absent : i <= j]

\* the conversions convert[i..] applied in order; KeyError at a column the
\* table lacks
RECURSIVE Converted(_, _, _, _)
Converted(df, convert, i, na_kept) ==
    IF i > Len(convert) THEN Ok(df)
    ELSE LET op == convert[i][1]
             col == convert[i][2]
         IN  IF col \notin Range(df.columns) THEN Raise("KeyError", df)
             ELSE Converted(SetColumn(df, col,
                                      IF op = "to_numeric"
                                      THEN to_numeric(Column(df, col))
                                      ELSE astype_str(Column(df, col), na_kept)),
                            convert, i + 1, na_kept)

Said(msg, col) == [msg |-> msg, col |-> col]
Outcome(e, out, val) == [exc |-> e, out |-> out, val |-> val]

\* load_data(csv_file) of script sc
load_data(sc, file, na_kept) ==
    IF ~file.exists THEN Outcome("none", <<Said("not_found", "")>>, None)
    ELSE IF ~file.bad /\ Len(file.header) = 0 /\ Len(file.rows) = 0
         THEN Outcome("none", <<Said("empty", "")>>, None)
    ELSE IF file.bad THEN Outcome("none", <<Said("parse_error", "")>>, None)
    ELSE LET df == read_csv(file)
             col == first_missing(Config(sc).required, df.columns)
             conv == Converted(df, Config(sc).convert, 1, na_kept)
         IN  IF col # "" THEN Outcome("none", <<Said("missing_column", col)>>, None)
             ELSE IF conv.exc # "none" THEN Outcome(conv.exc, <<>>, None)
             ELSE IF \E c \in Range(Config(sc).subset) : c \notin Range(df.columns)
                  THEN Outcome("KeyError", <<>>, None)
             ELSE Outcome("none", <<>>, dropna(conv.val, Config(sc).subset))

(***************************************************************************)
(* The sources explored: no file, an empty file, an unparseable file, and  *)
(* tables that lack up to MaxMissing columns and whose rows are the good   *)
(* row with at most one cell replaced.                                     *)
(***************************************************************************)
GoodRow ==
    [c \in SchemaKeys |->
       CASE c = "name" -> <<"A">>
         [] c = "type" -> <<"T">>
         [] c = "district" -> <<"D">>
         [] c = "street" -> <<"S">>
         [] c = "location_detail" -> <<"L">>
         [] c = "room_count" -> <<"3">>
         [] c = "area" -> <<"9", "0">>
         [] c = "total_price" -> <<"3", "9", "9">>
         [] c = "unit_price" -> <<"7">>]

\* the columns some load_data reads
ReadColumns == {"name", "type", "district", "room_count", "area", "total_price", "unit_price"}

BadTexts == {<<>>, <<"x">>, <<"N", "A">>}

\* the row that is GoodRow but for text t in column c (c = "" : no change)
RowWith(header, c, t) ==
    [j \in 1..Len(header) |-> IF header[j] = c THEN t ELSE GoodRow[header[j]]]

Table(header, rows) == [exists |-> TRUE, bad |-> FALSE, header |-> header, rows |-> rows]

InitLoad ==
    /\ script \in Scripts
    /\ \/ csvFile = NoFile
       \/ csvFile = Table(<<>>, <<>>)
       \/ csvFile = [exists |-> TRUE, bad |-> TRUE, header |-> <<>>, rows |-> <<>>]
       \/ \E M \in SUBSET ReadColumns :
            /\ Cardinality(M) <= MaxMissing
            /\ LET header == SelectSeq(fieldnames, LAMBDA c : c \notin M)
               IN  \E n \in 0..(IF M = {} THEN MaxRows ELSE 1) :
                     \E cs \in [1..n -> ReadColumns \cup {""}], ts \in [1..n -> BadTexts] :
                       csvFile = Table(header,
                                       [i \in 1..n |-> RowWith(header, cs[i], ts[i])])
    /\ loaded = None
    /\ lout = <<>>
    /\ lexc = "none"
    /\ lpc = "start"
    /\ jsonFile = [k |-> "missing"]
    /\ jsonHandle = "closed"
    /\ data = <<>>
    /\ idx = 0
    /\ csvHandle = "closed"
    /\ jout = <<>>
    /\ jexc = "none"
    /\ jpc = "idle"
    /\ record = EmptyDict
    /\ processed = NoRow
    /\ exc = "none"
    /\ rpc = "idle"
    /\ ExtIdle
    /\ MainIdle

\* the call load_data(input_csv)
LoadData ==
    /\ lpc = "start"
    /\ \E na_kept \in BOOLEAN :
       LET r == load_data(script, csvFile, na_kept)
       IN  /\ loaded' = r.val
           /\ lout' = lout \o r.out
           /\ lexc' = r.exc
           /\ lpc' = IF r.exc = "none" THEN "loaded" ELSE "crashed"
    /\ UNCHANGED <<script, recVars, jsonVars, extVars, mainVars>>

NextLoad == LoadData

SpecLoad == InitLoad /\ [][NextLoad]_vars

\* the text of column c in source row i of the table read
SourceText(i, c) ==
    csvFile.rows[i][CHOOSE j \in 1..Len(csvFile.header) : csvFile.header[j] = c]

\* load_data has returned a table
ReturnedTable == lpc = "loaded" /\ loaded.k = "DataFrame"

\* C7: every load_data, for every source, ends by returning a table or the
\* no-table value; no exception escapes it, also when it coerces a column that
\* is not among the columns it requires.
C7_NoExceptionEscapes == lpc # "crashed" /\ lexc = "none"

\* C8: when the table read lacks at least one column of the loader's required
\* list, load_data returns no table, nothing is raised, and the one diagnostic
\* printed names the first absent column in the order of the required list.
C8_FirstMissingInRequiredOrder ==
    LET req == Config(script).required
    IN  (/\ lpc # "start"
         /\ csvFile.exists /\ ~csvFile.bad /\ Len(csvFile.header) > 0
         /\ \E i \in 1..Len(req) : req[i] \notin Range(csvFile.header))
        => /\ lpc = "loaded"
           /\ loaded = None
           /\ \E i \in 1..Len(req) :
                /\ req[i] \notin Range(csvFile.header)
                /\ \A j \in 1..(i - 1) : req[j] \in Range(csvFile.header)
                /\ lout = <<Said("missing_column", req[i])>>

\* bubble_scatter on a table without type and area: type comes first in the
\* table, area first in the required list, and area is the one named
C8_Witness ==
    /\ script = "bubble_scatter"
    /\ lpc = "loaded"
    /\ Len(csvFile.header) > 0
    /\ "type" \notin Range(csvFile.header)
    /\ "area" \notin Range(csvFile.header)
    /\ csvFile.header[1] = "name"
    /\ loaded = None
    /\ lout = <<Said("missing_column", "area")>>

\* C9: after load_data no surviving row has a missing value in a required
\* column: a row whose district or type cell is empty in the source is dropped
\* and survives neither as the string "nan" nor as an empty string.
C9_NoMissingCategoricalSurvives ==
    ReturnedTable =>
      \A i \in 1..Len(loaded.rows) :
        \A c \in Range(Config(script).required) :
          LET cell == loaded.rows[i].cells[c]
          IN  /\ cell.t # "nan"
              /\ c \in {"district", "type"} =>
                   /\ SourceText(loaded.rows[i].idx, c) # <<>>
                   /\ cell # DfStr(<<"n", "a", "n">>)
                   /\ cell # DfStr(<<>>)

\* C10: after load_data every required numeric column (area, room_count,
\* unit_price, total_price) holds a parsed number in every surviving row; no
\* text survives there, for area in grouped_bar_average_price, radar_chart and
\* price_distribution_type too.
C10_RequiredNumericParsed ==
    ReturnedTable =>
      \A i \in 1..Len(loaded.rows) :
        \A c \in Range(Config(script).required) \cap NumericKeys :
          loaded.rows[i].cells[c].t \in {"int", "float"}

(***************************************************************************)
(* extract_number called on its own.                                       *)
(***************************************************************************)
\* no call of process_record is part of the behaviour
RecIdle ==
    /\ record = EmptyDict
    /\ processed = NoRow
    /\ exc = "none"
    /\ rpc = "idle"

\* the arguments explored: None, a number, a list, another object, and every
\* string of up to MaxLen characters
InitExtract ==
    /\ \/ xtext \in {Null, Num, Other, List(<<>>)}
       \/ \E k \in 0..MaxLen : \E s \in [1..k -> Alphabet] : xtext = Str(s)
       \/ \E s \in ExampleTexts : xtext = Str(s)
    /\ tokens = <<>>
    /\ xexc = "none"
    /\ xpc = "start"
    /\ RecIdle
    /\ JsonIdle
    /\ LoadIdle
    /\ MainIdle

\* the call extract_number(text)
ExtractNumber ==
    /\ xpc = "start"
    /\ LET r == extract_number(xtext)
       IN  /\ tokens' = r.val
           /\ xexc' = r.exc
    /\ xpc' = "done"
    /\ UNCHANGED <<xtext, recVars, jsonVars, loadVars, mainVars>>

NextExtract == ExtractNumber

SpecExtract == InitExtract /\ [][NextExtract]_vars

\* C13: extract_number of None or of any value that is no string returns an
\* empty list and raises nothing; of a string with no digit it returns an empty
\* list.
C13_NonStringGivesNoTokens ==
    xpc = "done" =>
      /\ xtext.k # "str" => (xexc = "none" /\ tokens = <<>>)
      /\ (xtext.k = "str" /\ \A i \in 1..Len(xtext.s) : xtext.s[i] \notin Digits)
           => (xexc = "none" /\ tokens = <<>>)

\* C17: once the parse diagnostic of a malformed source has been printed, the
\* source handle is closed, the destination is as it was before the run and
\* has no handle, and the success message is never printed.
C17_NoSuccessAfterParseError ==
    (\E i \in 1..Len(jout) : jout[i].msg = "json_decode_error") =>
      /\ jsonHandle = "closed"
      /\ csvHandle = "closed"
      /\ csvFile \in {NoFile, OldFile}
      /\ jpc # "crashed"
      /\ \A i \in 1..Len(jout) : jout[i].msg # "success"

(***************************************************************************)
(* Grouped summaries: data.groupby(by).agg(...).reset_index().             *)
(*                                                                         *)
(* A summary is its key columns (by), and one row per group holding the    *)
(* group's key cells and its aggregates by output column.  The output      *)
(* columns are avg_unit_price, avg_total_price, avg_area, avg_room and     *)
(* count.                                                                  *)
(***************************************************************************)
\* the characters of the explored texts, in code point order
Ascii ==
    <<" ", "#", ",", "-", ".", "/", "0", "1", "2", "3", "4", "5", "6", "7", "8", "9",
      "A", "B", "D", "E", "L", "N", "S", "T", "U", "a", "l", "m", "n", "o", "r", "u",
      "w", "x">>
Ord(ch) == CHOOSE i \in 1..Len(Ascii) : Ascii[i] = ch

\* s < t for str
RECURSIVE StrLess(_, _)
StrLess(s, t) ==
    IF Len(t) = 0 THEN FALSE
    ELSE IF Len(s) = 0 THEN TRUE
    ELSE IF s[1] # t[1] THEN Ord(s[1]) < Ord(t[1])
    ELSE StrLess(Tail(s), Tail(t))

\* a < b for two cells of one key column: both numbers or both str
CellLess(a, b) ==
    IF a.t = "str" /\ b.t = "str" THEN StrLess(a.s, b.s)
    ELSE a.n * b.d < b.n * a.d

\* a = b as pandas groups them: 3 and 3.0 are one key
CellEq(a, b) ==
    IF a.t = "str" \/ b.t = "str" THEN a = b ELSE a.n * b.d = b.n * a.d

\* k1 < k2 for two key tuples of one length
RECURSIVE KeyLess(_, _)
KeyLess(k1, k2) ==
    IF Len(k1) = 0 THEN FALSE
    ELSE IF ~CellEq(k1[1], k2[1]) THEN CellLess(k1[1], k2[1])
    ELSE KeyLess(Tail(k1), Tail(k2))

\* the key of row r under by
KeyOf(r, by) == [i \in 1..Len(by) |-> r.cells[by[i]]]

\* the keys of a set, ascending (groupby sorts its groups, sort=True)
RECURSIVE SortedKeys(_)
SortedKeys(ks) ==
    IF ks = {} THEN <<>>
    ELSE LET least == CHOOSE k \in ks : \A o \in ks : o = k \/ KeyLess(k, o)
         IN  <<least>> \o SortedKeys(ks \ {least})

RECURSIVE Gcd(_, _)
Gcd(a, b) == IF b = 0 THEN a ELSE Gcd(b, a % b)

\* the float n / d in lowest terms
Frac(n, d) == LET g == Gcd(n, d) IN IF g = 0 THEN DfFloat(0, 1) ELSE DfFloat(n \div g, d \div g)

\* "mean" of the cells of one group: missing cells are skipped, a group with
\* none left gives NaN, text cannot be averaged
mean(cells) ==
    LET present == SelectSeq(cells, LAMBDA c : c.t # "nan")
        total == FSum([i \in 1..Len(present) |-> <<present[i].n, present[i].d>>])
    IN  IF \E i \in 1..Len(present) : present[i].t = "str" THEN Raise("TypeError", NaN)
        ELSE IF Len(present) = 0 THEN Ok(NaN)
        ELSE Ok(Frac(total[1], total[2] * Len(present)))

\* "count" of the cells of one group: the cells that are not missing
count(cells) == Ok(DfInt(Len(SelectSeq(cells, LAMBDA c : c.t # "nan"))))

Summary(by, rows) == [k |-> "Summary", by |-> by, rows |-> rows]

\* the first exception among outcomes, "none" if there is none
RECURSIVE FirstExc(_)
FirstExc(outs) ==
    IF Len(outs) = 0 THEN "none"
    ELSE IF outs[1].exc # "none" THEN outs[1].exc
    ELSE FirstExc(Tail(outs))

\* data.groupby(by).agg(out=(col, fn), ...).reset_index(): rows whose key has
\* a missing cell belong to no group (dropna=True); KeyError for a column the
\* table lacks
groupby_agg(df, by, aggs) ==
    IF \E i \in 1..Len(by) : by[i] \notin Range(df.columns) THEN Raise("KeyError", Summary(by, <<>>))
    ELSE IF \E i \in 1..Len(aggs) : aggs[i][2] \notin Range(df.columns)
         THEN Raise("KeyError", Summary(by, <<>>))
    ELSE LET keyed == SelectSeq(df.rows,
                                LAMBDA r : \A i \in 1..Len(by) : r.cells[by[i]].t # "nan")
             keys == SortedKeys({KeyOf(keyed[i], by) : i \in 1..Len(keyed)})
             members(key) ==
                 SelectSeq(keyed, LAMBDA r : \A i \in 1..Len(by) : CellEq(r.cells[by[i]], key[i]))
             one(key, a) ==
                 LET cells == [i \in 1..Len(members(key)) |-> members(key)[i].cells[a[2]]]
                 IN  IF a[3] = "mean" THEN mean(cells) ELSE count(cells)
             outs == [g \in 1..Len(keys) |-> [i \in 1..Len(aggs) |-> one(keys[g], aggs[i])]]
             excs == [g \in 1..Len(keys) |-> [exc |-> FirstExc(outs[g])]]
         IN  IF FirstExc(excs) # "none" THEN Raise(FirstExc(excs), Summary(by, <<>>))
             ELSE Ok(Summary(by,
                       [g \in 1..Len(keys) |->
                          [key |-> keys[g],
                           vals |-> [c \in {aggs[i][1] : i \in 1..Len(aggs)} |->
                                       outs[g][CHOOSE i \in 1..Len(aggs) : aggs[i][1] = c].val]]]))

\* grouped.sort_values(by=col, ascending=False): descending, rows of equal
\* value keeping their order
RECURSIVE sort_values_desc(_, _)
sort_values_desc(rows, col) ==
    IF Len(rows) = 0 THEN <<>>
    ELSE LET first == CHOOSE i \in 1..Len(rows) :
                        /\ \A j \in 1..Len(rows) : ~CellLess(rows[i].vals[col], rows[j].vals[col])
                        /\ \A j \in 1..(i - 1) : CellLess(rows[j].vals[col], rows[i].vals[col])
         IN  <<rows[first]>>
             \o sort_values_desc([j \in 1..(Len(rows) - 1) |->
                                    IF j < first THEN rows[j] ELSE rows[j + 1]], col)

\* the aggregations the scripts name: output column, source column, function
AvgUnitPrice == <<"avg_unit_price", "unit_price", "mean">>
AvgTotalPrice == <<"avg_total_price", "total_price", "mean">>
AvgArea == <<"avg_area", "area", "mean">>
AvgRoom == <<"avg_room", "room_count", "mean">>
NameCount == <<"count", "name", "count">>

\* average_price_per_district.prepare_plot_data(data)
prepare_plot_data(df) ==
    LET g == groupby_agg(df, <<"district">>, <<AvgUnitPrice, AvgTotalPrice, NameCount>>)
    IN  IF g.exc # "none" THEN g
        ELSE Ok(Summary(g.val.by, sort_values_desc(g.val.rows, "avg_unit_price")))

\* grouped_bar_average_price.prepare_grouped_data(data)
prepare_grouped_data(df) ==
    groupby_agg(df, <<"district", "room_count">>, <<AvgUnitPrice, AvgTotalPrice>>)

\* treemap_average_price.prepare_treemap_data(data)
prepare_treemap_data(df) ==
    groupby_agg(df, <<"district", "type">>, <<NameCount, AvgUnitPrice, AvgTotalPrice>>)

\* radar_chart.prepare_radar_data(data, group_by)
prepare_radar_data(df, group_by) ==
    groupby_agg(df, <<group_by>>, <<AvgArea, AvgRoom, AvgUnitPrice, AvgTotalPrice, NameCount>>)

\* grouped.pivot(index=..., columns=..., values=...) of a summary keyed by
\* (index, columns): a cell for every pair, NaN where the pair has no group
pivot(summary, values) ==
    LET index == SortedKeys({<<summary.rows[i].key[1]>> : i \in 1..Len(summary.rows)})
        columns == SortedKeys({<<summary.rows[i].key[2]>> : i \in 1..Len(summary.rows)})
        hit(a, b) == {i \in 1..Len(summary.rows) : summary.rows[i].key = <<a, b>>}
    IN  [k |-> "Pivot",
         index |-> [i \in 1..Len(index) |-> index[i][1]],
         columns |-> [j \in 1..Len(columns) |-> columns[j][1]],
         cells |-> [i \in 1..Len(index) |-> [j \in 1..Len(columns) |->
                      IF hit(index[i][1], columns[j][1]) = {} THEN NaN
                      ELSE summary.rows[CHOOSE h \in hit(index[i][1], columns[j][1]) : TRUE]
                             .vals[values]]]]

\* heatmap_average_price_per_district_type.compute_average_prices(data)
compute_average_prices(df) ==
    LET g == groupby_agg(df, <<"district", "type">>, <<AvgUnitPrice, AvgTotalPrice>>)
    IN  IF g.exc # "none" THEN Raise(g.exc, <<>>)
        ELSE Ok([k |-> "Pivots",
                 unit |-> pivot(g.val, "avg_unit_price"),
                 total |-> pivot(g.val, "avg_total_price")])

\* x.empty of a summary or of the pair of pivot tables (the test of main)
IsEmpty(x) ==
    IF x.k = "Pivots"
    THEN \/ Len(x.unit.index) = 0 \/ Len(x.unit.columns) = 0
         \/ Len(x.total.index) = 0 \/ Len(x.total.columns) = 0
    ELSE Len(x.rows) = 0

\* the least and the greatest cell of a column of numbers
MinCell(cells) == cells[CHOOSE i \in 1..Len(cells) : \A j \in 1..Len(cells) : ~CellLess(cells[j], cells[i])]
MaxCell(cells) == cells[CHOOSE i \in 1..Len(cells) : \A j \in 1..Len(cells) : ~CellLess(cells[i], cells[j])]

\* (v - lo) / (hi - lo) for lo <= v <= hi, lo < hi
Scaled(v, lo, hi) ==
    Frac((v.n * lo.d - lo.n * v.d) * (hi.d * lo.d), (v.d * lo.d) * (hi.n * lo.d - lo.n * hi.d))

\* radar_chart.normalize_data with 0.5 for a column of equal values
normalize_data_half(df, metrics) ==
    [df EXCEPT !.rows = [i \in 1..Len(df.rows) |->
       [df.rows[i] EXCEPT !.vals = [c \in DOMAIN df.rows[i].vals |->
          IF c \notin Range(metrics) THEN df.rows[i].vals[c]
          ELSE LET col == [j \in 1..Len(df.rows) |-> df.rows[j].vals[c]]
               IN  IF CellEq(MaxCell(col), MinCell(col)) THEN DfFloat(1, 2)
                   ELSE Scaled(col[i], MinCell(col), MaxCell(col))]]]]

\* radar_chart.normalize_data(df, metrics)
normalize_data(df, metrics) ==
    [df EXCEPT !.rows = [i \in 1..Len(df.rows) |->
       [df.rows[i] EXCEPT !.vals = [c \in DOMAIN df.rows[i].vals |->
          IF c \notin Range(metrics) THEN df.rows[i].vals[c]
          ELSE LET col == [j \in 1..Len(df.rows) |-> df.rows[j].vals[c]]
               IN  IF CellEq(MaxCell(col), MinCell(col)) THEN DfInt(0)
                   ELSE Scaled(col[i], MinCell(col), MaxCell(col))]]]]

\* the metrics main normalizes
metrics == <<"avg_area", "avg_room", "avg_unit_price", "avg_total_price", "count">>

\* plot_bar_chart, lines 72-78: the widths of the bars.  With all counts
\* equal normalized_counts is the list [0.5] * len(counts), and a list times
\* the float 0.7 is a TypeError
bar_widths(summary) ==
    LET counts == [i \in 1..Len(summary.rows) |-> summary.rows[i].vals["count"]]
        lo == MinCell(counts)
        hi == MaxCell(counts)
    IN  IF ~CellEq(hi, lo)
        THEN Ok([i \in 1..Len(counts) |->
                   LET f == Scaled(counts[i], lo, hi)
                   IN  Frac(3 * f.d + 7 * f.n, 10 * f.d)])
        ELSE Raise("TypeError", <<>>)

(***************************************************************************)
(* main of the report scripts.  The drawing itself is not modelled: a plot *)
(* step is the call of the script's plot function, of which only the bar   *)
(* widths of plot_bar_chart are computed.                                  *)
(***************************************************************************)
MaxMainRows == 3   \* most rows of a table given to main

\* the scripts whose main aggregates before it plots
Aggregating ==
    {"average_price_per_district", "grouped_bar_average_price", "treemap_average_price",
     "heatmap_average_price_per_district_type", "radar_chart"}

\* the scripts whose main calls its plot function once only
SinglePlot == {"price_distribution", "price_distribution_type"}

NoSummary == Summary(<<>>, <<>>)

\* `data is None or data.empty` with the second test left out
nothing_to_do_none_only(d) == d.k = "None"

\* `data is None or data.empty`, the test after load_data
nothing_to_do(d) == d.k = "None" \/ Len(d.rows) = 0

\* the aggregation main calls at position pc
Aggregate(sc, pc, df) ==
    CASE sc = "average_price_per_district" -> prepare_plot_data(df)
      [] sc = "grouped_bar_average_price" -> prepare_grouped_data(df)
      [] sc = "treemap_average_price" -> prepare_treemap_data(df)
      [] sc = "heatmap_average_price_per_district_type" -> compute_average_prices(df)
      [] sc = "radar_chart" ->
           prepare_radar_data(df, IF pc = "loaded" THEN "district" ELSE "type")

\* `if not os.path.exists(input_csv)`
MainExists ==
    /\ mpc = "start"
    /\ trace' = Append(trace, "exists")
    /\ IF ~csvFile.exists
       THEN /\ mout' = Append(mout, Said("no_input_file", ""))
            /\ mpc' = "done"
       ELSE /\ mpc' = "checked"
            /\ UNCHANGED mout
    /\ UNCHANGED <<grouped, normalized, widths, mexc, recVars, jsonVars, loadVars, extVars>>

\* `data = load_data(input_csv)` and the test that follows it
MainLoad ==
    /\ mpc = "checked"
    /\ trace' = Append(trace, "load")
    /\ \E na_kept \in BOOLEAN :
       LET r == load_data(script, csvFile, na_kept)
       IN  /\ loaded' = r.val
           /\ lout' = lout \o r.out
           /\ lexc' = r.exc
           /\ lpc' = IF r.exc = "none" THEN "loaded" ELSE "crashed"
           /\ IF r.exc # "none"
              THEN /\ mexc' = r.exc
                   /\ mpc' = "crashed"
                   /\ UNCHANGED mout
              ELSE IF nothing_to_do(r.val)
              THEN /\ mout' = Append(mout, Said("nothing_loaded", ""))
                   /\ mpc' = "done"
                   /\ UNCHANGED mexc
              ELSE /\ mpc' = "loaded"
                   /\ UNCHANGED <<mout, mexc>>
    /\ UNCHANGED <<script, grouped, normalized, widths, recVars, jsonVars, extVars>>

\* the call of the script's prepare function and the test of .empty after it
MainAggregate ==
    /\ \/ mpc = "loaded" /\ script \in Aggregating
       \/ mpc = "plotted" /\ script = "radar_chart"
    /\ trace' = Append(trace, "aggregate")
    /\ LET r == Aggregate(script, mpc, loaded)
       IN  IF r.exc # "none"
           THEN /\ mexc' = r.exc
                /\ mpc' = "crashed"
                /\ UNCHANGED <<grouped, mout>>
           ELSE /\ grouped' = r.val
                /\ UNCHANGED mexc
                /\ IF IsEmpty(r.val)
                   THEN /\ mout' = Append(mout, Said("nothing_grouped", ""))
                        /\ mpc' = "done"
                   ELSE /\ mpc' = IF mpc = "loaded" THEN "aggregated" ELSE "aggregated_again"
                        /\ UNCHANGED mout
    /\ UNCHANGED <<normalized, widths, recVars, jsonVars, loadVars, extVars>>

\* radar_chart: `normalize_data(grouped, metrics)`
MainNormalize ==
    /\ script = "radar_chart"
    /\ mpc \in {"aggregated", "aggregated_again"}
    /\ trace' = Append(trace, "normalize")
    /\ normalized' = normalize_data(grouped, metrics)
    /\ mpc' = IF mpc = "aggregated" THEN "normalized" ELSE "normalized_again"
    /\ UNCHANGED <<grouped, widths, mout, mexc, recVars, jsonVars, loadVars, extVars>>

\* a call of the script's plot function
MainPlot ==
    /\ \/ mpc = "loaded" /\ script \notin Aggregating
       \/ mpc = "aggregated" /\ script \in Aggregating \ {"radar_chart"}
       \/ mpc = "plotted" /\ script # "radar_chart"
       \/ mpc \in {"normalized", "normalized_again"}
    /\ trace' = Append(trace, "plot")
    /\ LET w == IF script = "average_price_per_district" THEN bar_widths(grouped) ELSE Ok(<<>>)
       IN  IF w.exc # "none"
           THEN /\ mexc' = w.exc
                /\ mpc' = "crashed"
                /\ UNCHANGED widths
           ELSE /\ widths' = w.val
                /\ mpc' = IF mpc \in {"plotted", "normalized_again"} \/ script \in SinglePlot
                          THEN "done" ELSE "plotted"
                /\ UNCHANGED mexc
    /\ UNCHANGED <<grouped, normalized, mout, recVars, jsonVars, loadVars, extVars>>

(***************************************************************************)
(* The tables given to main: rows of three districts and three unit prices *)
(* (the total price following the unit price), and rows with a second      *)
(* type, no name, a text as area and a text as unit price.                 *)
(***************************************************************************)
TotalFor(unit) ==
    CASE unit = <<"5", "0">> -> <<"1", "0", "0">>
      [] unit = <<"1", "0", "0">> -> <<"3", "0", "0">>
      [] unit = <<"2", "0", "0">> -> <<"5", "0", "0">>
      [] OTHER -> <<"3", "0", "0">>

MainRow(district, unit, ty, nm, ar) ==
    [c \in SchemaKeys |->
       CASE c = "name" -> nm
         [] c = "type" -> ty
         [] c = "district" -> district
         [] c = "room_count" -> <<"3">>
         [] c = "area" -> ar
         [] c = "total_price" -> TotalFor(unit)
         [] c = "unit_price" -> unit
         [] OTHER -> GoodRow[c]]

MainRows ==
    {MainRow(<<"A">>, u, <<"T">>, <<"A">>, <<"9", "0">>) :
       u \in {<<"5", "0">>, <<"1", "0", "0">>, <<"2", "0", "0">>}}
    \cup {MainRow(<<"B">>, u, <<"T">>, <<"A">>, <<"9", "0">>) :
            u \in {<<"5", "0">>, <<"1", "0", "0">>}}
    \cup {MainRow(<<"D">>, <<"2", "0", "0">>, <<"T">>, <<"A">>, <<"9", "0">>),
          MainRow(<<"B">>, <<"1", "0", "0">>, <<"U">>, <<"A">>, <<"9", "0">>),
          MainRow(<<"A">>, <<"1", "0", "0">>, <<"T">>, <<>>, <<"9", "0">>),
          MainRow(<<"A">>, <<"1", "0", "0">>, <<"T">>, <<"A">>, <<"x">>),
          MainRow(<<"A">>, <<"x">>, <<"T">>, <<"A">>, <<"9", "0">>)}

InitMain ==
    /\ script \in Scripts
    /\ \/ csvFile = NoFile
       \/ csvFile = Table(<<>>, <<>>)
       \/ csvFile = [exists |-> TRUE, bad |-> TRUE, header |-> <<>>, rows |-> <<>>]
       \/ \E c \in ReadColumns :
            LET header == SelectSeq(fieldnames, LAMBDA h : h # c)
            IN  csvFile = Table(header, <<RowWith(header, "", <<>>)>>)
       \/ \E n \in 0..MaxMainRows : \E rs \in [1..n -> MainRows] :
            csvFile = Table(fieldnames,
                            [i \in 1..n |-> [j \in 1..Len(fieldnames) |-> rs[i][fieldnames[j]]]])
    /\ loaded = None
    /\ lout = <<>>
    /\ lexc = "none"
    /\ lpc = "start"
    /\ mpc = "start"
    /\ grouped = NoSummary
    /\ normalized = NoSummary
    /\ widths = <<>>
    /\ mout = <<>>
    /\ mexc = "none"
    /\ trace = <<>>
    /\ jsonFile = [k |-> "missing"]
    /\ jsonHandle = "closed"
    /\ data = <<>>
    /\ idx = 0
    /\ csvHandle = "closed"
    /\ jout = <<>>
    /\ jexc = "none"
    /\ jpc = "idle"
    /\ RecIdle
    /\ ExtIdle

NextMain ==
    \/ MainExists
    \/ MainLoad
    \/ MainAggregate
    \/ MainNormalize
    \/ MainPlot

SpecMain == InitMain /\ [][NextMain]_vars

\* the summary main holds was made by groupby(by) of the table loaded
Grouped(scripts) ==
    /\ script \in scripts
    /\ mpc \in {"aggregated", "aggregated_again"}

\* the rows of the loaded table whose key under the summary's by is key
MembersOf(key) ==
    SelectSeq(loaded.rows, LAMBDA r : KeyOf(r, grouped.by) = key)

\* the sum of column col over rows, as a pair n / d
SumOf(rows, col) == FSum([i \in 1..Len(rows) |-> <<rows[i].cells[col].n, rows[i].cells[col].d>>])

\* output column out of group row g is the mean of column col over members
IsMeanOf(g, out, col, members) ==
    out \in DOMAIN g.vals =>
      LET total == SumOf(members, col)
      IN  g.vals[out].n * total[2] * Len(members) = total[1] * g.vals[out].d

\* C11: the summary of prepare_plot_data, prepare_treemap_data and
\* prepare_radar_data has exactly one row for each distinct key of the loaded
\* table, whose count is the number of table rows of the group (also when a
\* row has no name) and whose means are the column sums divided by that number.
C11_OneRowPerGroupWithCountAndMean ==
    Grouped({"average_price_per_district", "treemap_average_price", "radar_chart"}) =>
      /\ {grouped.rows[i].key : i \in 1..Len(grouped.rows)}
           = {KeyOf(loaded.rows[i], grouped.by) : i \in 1..Len(loaded.rows)}
      /\ \A i, j \in 1..Len(grouped.rows) : grouped.rows[i].key = grouped.rows[j].key => i = j
      /\ \A i \in 1..Len(grouped.rows) :
           LET g == grouped.rows[i]
               members == MembersOf(g.key)
           IN  /\ g.vals["count"] = DfInt(Len(members))
               /\ IsMeanOf(g, "avg_unit_price", "unit_price", members)
               /\ IsMeanOf(g, "avg_total_price", "total_price", members)
               /\ IsMeanOf(g, "avg_area", "area", members)
               /\ IsMeanOf(g, "avg_room", "room_count", members)

\* a cell that is a number from 0 to 1
InUnitInterval(c) == c.t \in {"int", "float"} /\ 0 <= c.n /\ c.n <= c.d

\* C12: normalize_data maps each metric column on its own by
\* (v - min) / (max - min): every value lands in [0, 1], the minimum on 0 and
\* the maximum on 1; a column whose values are all equal (a one-row summary
\* included) maps to 0 throughout.
C12_NormalizeRange ==
    (script = "radar_chart" /\ mpc \in {"normalized", "normalized_again"}) =>
      /\ Len(normalized.rows) = Len(grouped.rows)
      /\ \A c \in Range(metrics) :
           LET col == [i \in 1..Len(grouped.rows) |-> grouped.rows[i].vals[c]]
               flat == \A i, j \in 1..Len(col) : CellEq(col[i], col[j])
           IN  \A i \in 1..Len(col) :
                 LET v == normalized.rows[i].vals[c]
                 IN  /\ InUnitInterval(v)
                     /\ flat => v.n = 0
                     /\ (\A j \in 1..Len(col) : ~CellLess(col[j], col[i])) => v.n = 0
                     /\ (~flat /\ \A j \in 1..Len(col) : ~CellLess(col[i], col[j])) => v.n = v.d
                     /\ ~flat =>
                          \E lo, hi \in 1..Len(col) :
                             /\ \A j \in 1..Len(col) :
                                  ~CellLess(col[j], col[lo]) /\ ~CellLess(col[hi], col[j])
                             /\ v.n * col[i].d * col[lo].d
                                  * (col[hi].n * col[lo].d - col[lo].n * col[hi].d)
                                = v.d * (col[i].n * col[lo].d - col[lo].n * col[i].d)
                                  * col[hi].d * col[lo].d

\* three districts of unit price 50, 100 and 200 and one area: the price
\* column maps to 0, 1/3 and 1, the area column to 0 throughout
C12_Witness ==
    /\ script = "radar_chart"
    /\ mpc = "normalized"
    /\ Len(grouped.rows) = 3
    /\ [i \in 1..3 |-> grouped.rows[i].vals["avg_unit_price"]]
         = <<DfFloat(50, 1), DfFloat(100, 1), DfFloat(200, 1)>>
    /\ [i \in 1..3 |-> normalized.rows[i].vals["avg_unit_price"]]
         = <<DfFloat(0, 1), DfFloat(1, 3), DfFloat(1, 1)>>
    /\ \A i \in 1..3 : normalized.rows[i].vals["avg_area"] = DfInt(0)

\* the rows of the summary main holds descend (weakly) in column c
Descending(c) ==
    \A i \in 1..(Len(grouped.rows) - 1) :
      ~CellLess(grouped.rows[i].vals[c], grouped.rows[i + 1].vals[c])

\* C14: every summary that is not pivoted (prepare_plot_data,
\* prepare_grouped_data, prepare_treemap_data, prepare_radar_data) reaches the
\* plot ordered by descending value of a numeric summary column: each row's
\* value is at least the next row's.
C14_SummaryDescending ==
    Grouped({"average_price_per_district", "grouped_bar_average_price",
             "treemap_average_price", "radar_chart"}) =>
      \E c \in {"avg_unit_price", "avg_total_price", "count"} :
        c \in DOMAIN grouped.rows[1].vals /\ Descending(c)

\* the positions of step in trace
At(step) == {i \in 1..Len(trace) : trace[i] = step}

\* C16: main takes its steps only in the order existence check, load_data,
\* aggregation, plot.  When load_data returns no table or a table without
\* rows, main prints one nothing-to-do message and ends, and no aggregation
\* or plot step follows; no plot step follows an aggregation that gave an empty
\* summary.
C16_NothingToDoEndsRun ==
    /\ \A i \in At("load") : i = 2 /\ trace[1] = "exists"
    /\ \A i \in At("aggregate") \cup At("normalize") \cup At("plot") : At("load") = {2} /\ i > 2
    /\ script \in Aggregating =>
         \A i \in At("plot") : \E j \in At("aggregate") : j < i
    /\ (lpc = "loaded" /\ (loaded.k = "None" \/ Len(loaded.rows) = 0)) =>
         /\ mpc = "done"
         /\ mexc = "none"
         /\ mout = <<Said("nothing_loaded", "")>>
         /\ trace = <<"exists", "load">>
    /\ (\E i \in 1..Len(mout) : mout[i].msg = "nothing_grouped") =>
         /\ mpc = "done"
         /\ mexc = "none"
         /\ trace[Len(trace)] = "aggregate"
         /\ Len(mout) = 1

\* a table is read, every row of it is dropped, and main ends after load_data
\* with the one message
C16_Witness ==
    /\ mpc = "done"
    /\ script \in Aggregating
    /\ loaded.k = "DataFrame"
    /\ Len(csvFile.rows) > 0
    /\ Len(loaded.rows) = 0
    /\ mout = <<Said("nothing_loaded", "")>>
    /\ trace = <<"exists", "load">>

\* C18: for every non-empty summary given to plot_bar_chart the bar widths
\* are computed without error and lie between 0.3 and 1.0, also when all
\* groups have the same count (a single group included).
C18_BarWidthsInRange ==
    (script = "average_price_per_district" /\ Len(trace) > 0 /\ trace[Len(trace)] = "plot") =>
      /\ mexc = "none"
      /\ Len(widths) = Len(grouped.rows)
      /\ \A i \in 1..Len(widths) :
           3 * widths[i].d <= 10 * widths[i].n /\ widths[i].n <= widths[i].d

(***************************************************************************)
(* The round trip: preprocessing writes the table, a report script loads   *)
(* it.  A cell is written as its text and read back as that text; what     *)
(* read_csv makes of the text is ParseColumn's work.                       *)
(***************************************************************************)
MaxBatch == 2   \* most records of a batch written and reloaded

\* a record with every field present and usable
CompleteRecord(nm, district) ==
    [f \in RawKeys |->
       CASE f = "name" -> Str(nm)
         [] f = "type" -> Str(<<"T">>)
         [] f = "location" -> List(<<ElemStr(district), ElemStr(<<"S">>), ElemStr(<<"L">>)>>)
         [] f = "room" -> List(<<ElemStr(<<"3", "r">>)>>)
         [] f = "area" -> Str(<<"8", "0", "-", "1", "0", "0", "m">>)
         [] f = "total_price" -> Str(<<"3", "9", "9", ".", "9", "w">>)
         [] f = "unit_price" -> Str(<<"5", "2", "0", "0", "0">>)]

\* names and districts: plain ones, one that reads as a missing value, ones
\* that read as numbers
CompleteRecords ==
    {CompleteRecord(nm, district) :
       nm \in {<<"A">>, <<"B">>, <<"N", "A">>, <<"1", "2">>},
       district \in {<<"D">>, <<"E">>, <<"0", "7">>}}

\* the loaders that require all the columns a report reads
FullLoaders == {"grouped_bar_average_price", "radar_chart", "price_distribution_type"}

InitRoundTrip ==
    /\ \E n \in 1..MaxBatch : \E recs \in [1..n -> CompleteRecords] :
         jsonFile = [k |-> "value", v |-> Array([i \in 1..n |-> Dict(recs[i])])]
    /\ jsonHandle = "closed"
    /\ data = Scalar("null")
    /\ idx = 0
    /\ csvFile \in {NoFile, OldFile}
    /\ csvHandle = "closed"
    /\ jout = <<>>
    /\ jexc = "none"
    /\ jpc = "start"
    /\ script \in FullLoaders
    /\ loaded = None
    /\ lout = <<>>
    /\ lexc = "none"
    /\ lpc = "start"
    /\ RecIdle
    /\ ExtIdle
    /\ MainIdle

\* the report script's load_data, run on the table the finished preprocessing
\* run has written
Reload ==
    /\ jpc = "finished"
    /\ LoadData

NextRoundTrip ==
    \/ JsonOpen
    \/ JsonLoad
    \/ EnsureList
    \/ OpenCsv
    \/ WriteEntry
    \/ CloseCsv
    \/ MainPrint
    \/ Reload

SpecRoundTrip == InitRoundTrip /\ [][NextRoundTrip]_vars

\* the loaded cell holds what the normalized cell held: the same str, or the
\* same number
SameValue(cell, norm) ==
    IF norm.t = "int" THEN cell.t \in {"int", "float"} /\ cell.n = norm.n * cell.d
    ELSE cell = DfStr(norm.s)

\* C15: a batch whose normalized rows have no missing field, written by
\* json_to_csv and reloaded by load_data, comes back with as many rows, in
\* the same order, with the same value in every column, also when a text
\* field reads as a number or as a missing marker.
C15_RoundTrip ==
    LET rows == [i \in 1..Len(jsonFile.v.items) |-> process_record(jsonFile.v.items[i].rec).val]
    IN  (/\ jpc = "finished"
         /\ lpc # "start"
         /\ \A i \in 1..Len(rows) : \A c \in SchemaKeys : rows[i][c] # Missing)
        => /\ lpc = "loaded"
           /\ loaded.k = "DataFrame"
           /\ Len(loaded.rows) = Len(rows)
           /\ \A i \in 1..Len(loaded.rows) :
                /\ loaded.rows[i].idx = i
                /\ \A c \in SchemaKeys : SameValue(loaded.rows[i].cells[c], rows[i][c])

====
